---- MODULE Spec2Model ----
(***************************************************************************)
(* The file-backed message queue of internal/remote/storage/storage_memory *)
(* (queue.go): queue directories, one record per message, the poll         *)
(* (GetMsg) that scans, purges, sorts, truncates and then writes leases,   *)
(* and the acknowledgment (AckMsg).  No operation takes a lock, so a poll  *)
(* is modelled in the steps other callers can interleave with: its scan,   *)
(* then one lease write per selected message; an acknowledgment in its     *)
(* read-and-check and its remove.                                          *)
(***************************************************************************)
EXTENDS Integers, Sequences, FiniteSets, TLC

\* ------------------------------------------------------------------ bounds
MaxMsgs == 2          \* message IDs ever generated
RaceMsgs == 1         \* messages enqueued while two consumers race
MaxQueues == 1        \* queue IDs generated while messages are handled
MaxListed == 2        \* queue IDs generated while queues are managed
MaxPage == 3          \* largest page a lister asks for
MaxPageSize == 2      \* largest page size a lister asks for
MaxTicks == 3         \* clock ticks besides the one long wait
MaxRetry == 2         \* largest retry a producer passes
MaxTimeout == 1       \* largest timeout (seconds) a producer passes
MaxLimit == 2         \* largest limit a poller passes
MaxRetried == 3       \* polls stop selecting a message delivered this often
NumConsumers == 2     \* concurrent callers of GetMsg / AckMsg
TicksPerSec == 2      \* clock resolution: ticks per Unix second

\* --------------------------------------------------------------- constants
MinLead == 300        \* CreateMsg: "deadline must after now + 300s"

Consumers == 1..NumConsumers
MsgIds == 1..MaxMsgs
QueueIds == 1..MaxQueues
QueueNames == {"orders"}
ListedIds == 1..MaxListed
ListedNames == {"orders", "billing"}
Descriptions == {"", "bills"}
Pages == 1..MaxPage
PageSizes == 1..MaxPageSize
Retries == 0..MaxRetry
Timeouts == 1..MaxTimeout
Limits == 0..MaxLimit
Leads == {MinLead - 1, MinLead, MinLead + 1}
LongWait == MinLead * TicksPerSec

\* time.Time{}: the zero instant (year 1), before every instant of the clock
ZeroTime == -1

\* time.Time.Unix(): whole seconds, the sub-second part dropped
Unix(t) == t \div TicksPerSec

\* time.Time.Add(time.Duration(secs) * time.Second)
AddSeconds(t, secs) == t + secs * TicksPerSec

\* time.Time.Before / After / Equal
Before(a, b) == a < b
After(a, b) == a > b
Equal(a, b) == a = b

\* time.Local of the process: the offset of its wall clock from UTC in
\* seconds and the zone suffix RFC 3339 prints for it, as character codes
UTC == [offset |-> 0, suffix |-> <<90>>]                            \* "Z"
CET == [offset |-> 3600, suffix |-> <<43, 48, 49, 58, 48, 48>>]     \* "+01:00"
Locations == {UTC, CET}

\* the digits of the fraction r / TicksPerSec of a second, k places
RECURSIVE FractionDigits(_, _)
FractionDigits(r, k) ==
    IF k = 0 THEN <<>>
    ELSE <<48 + (r * 10) \div TicksPerSec>> \o FractionDigits((r * 10) % TicksPerSec, k - 1)

\* the layout's ".999999999": trailing zeros are dropped
RECURSIVE TrimZeros(_)
TrimZeros(s) ==
    IF s = <<>> THEN s
    ELSE IF s[Len(s)] = 48 THEN TrimZeros(SubSeq(s, 1, Len(s) - 1)) ELSE s

\* time.Time.Format(time.RFC3339Nano) in location loc.  The date and the time
\* of day are fixed-width fields, so they are kept as one leading element, the
\* wall-clock second, that compares as the fields' characters do; then the
\* fraction (absent when zero) and the zone, character by character.
Format(t, loc) ==
    LET digits == TrimZeros(FractionDigits(t % TicksPerSec, 9))
    IN  <<Unix(t) + loc.offset>>
        \o (IF digits = <<>> THEN <<>> ELSE <<46>> \o digits)
        \o loc.suffix

\* Go's < on strings: the first differing element decides, a proper prefix is less
RECURSIVE StringLess(_, _)
StringLess(a, b) ==
    IF b = <<>> THEN FALSE
    ELSE IF a = <<>> THEN TRUE
    ELSE IF Head(a) # Head(b) THEN Head(a) < Head(b)
    ELSE StringLess(Tail(a), Tail(b))

VARIABLES
    location,   \* time.Local: the zone the process formats its clock in
    now,        \* the wall clock, in ticks
    queues,     \* queue ID -> descriptor (metadata.json of an existing directory)
    nextQueue,  \* next fresh queue ID (uuid.NewString)
    born,       \* history: queue ID -> the instant its descriptor was created (0: none)
    msgs,       \* message ID -> MsgLocal record (<id>.json of its queue directory)
    nextMsg,    \* next fresh message ID (uuid.NewString)
    proc,       \* each consumer's call in progress
    last,       \* the call that returned last (Internal after any other step)
    delivered,  \* history: per message, how often GetMsg has returned it
    held,       \* history: per message and consumer, the end of the lease last handed out
    holder,     \* history: per message, the consumer it was handed to last
    acked,      \* history: the messages a successful AckMsg removed
    home        \* history: per message, the queue it was enqueued in (0: none)

vars == <<location, now, queues, nextQueue, born, msgs, nextMsg, proc, last, delivered, held, holder, acked, home>>

hist == <<delivered, held, holder, acked, home>>

Idle == [pc |-> "idle", queue |-> 0, now |-> 0, sel |-> <<>>, resp |-> <<>>, msg |-> 0]

NoLease == ZeroTime

Result(op, c, q, m, arg, res) ==
    [op |-> op, c |-> c, queue |-> q, msg |-> m, arg |-> arg, res |-> res]

\* a step that returns nothing to a caller
Internal == Result("none", 0, 0, 0, 0, "none")

Min(a, b) == IF a < b THEN a ELSE b

Range(s) == {s[i] : i \in 1..Len(s)}

\* the record files found in queue directory q
Files(q) == {m \in DOMAIN msgs : msgs[m].queueID = q}

isDirExists(q) == q \in DOMAIN queues

isFileExists(q, m) == isDirExists(q) /\ m \in Files(q)

\* remove the given record files
Remove(store, gone) == [m \in DOMAIN store \ gone |-> store[m]]

\* os.WriteFile of one record file
WriteFile(store, rec) == [m \in DOMAIN store \cup {rec.id} |-> IF m = rec.id THEN rec ELSE store[m]]

\* ------------------------------------------------------------------- clock
Tick ==
    /\ now % LongWait < MaxTicks
    /\ now' = now + 1
    /\ last' = Internal
    /\ UNCHANGED <<location, queues, nextQueue, born, msgs, nextMsg, proc, hist>>

\* A long quiet period (the minimum lead time of a deadline): every call in
\* progress has long returned when it ends.
Wait ==
    /\ \A c \in Consumers : proc[c].pc = "idle"
    /\ now < LongWait
    /\ now' = now + LongWait
    /\ last' = Internal
    /\ UNCHANGED <<location, queues, nextQueue, born, msgs, nextMsg, proc, hist>>

\* ------------------------------------------------------------------ queues
isNameExists(name) == \E q \in DOMAIN queues : queues[q].name = name

\* the descriptor CreateQueue builds from its request
NewQueue(id, name, description, t) ==
    [id |-> id, name |-> name, description |-> description,
     runId |-> "run", actorId |-> "actor", createdAt |-> Format(t, location)]

\* c.updateMetadata: the descriptor file of queue d.id is overwritten
updateMetadata(store, d) == [q \in DOMAIN store \cup {d.id} |-> IF q = d.id THEN d ELSE store[q]]

CreateQueue(name, description) ==
    /\ IF isNameExists(name)
       THEN /\ last' = Result("CreateQueue", 0, 0, 0, 0, "AlreadyExists")
            /\ UNCHANGED <<queues, nextQueue, born>>
       ELSE /\ nextQueue <= MaxListed
            /\ queues' = updateMetadata(queues, NewQueue(nextQueue, name, description, now))
            /\ nextQueue' = nextQueue + 1
            /\ born' = [born EXCEPT ![nextQueue] = now]
            /\ last' = Result("CreateQueue", 0, nextQueue, 0, 0, "ok")
    /\ UNCHANGED <<location, now, msgs, nextMsg, proc, hist>>

\* the update that writes a descriptor built anew, whether or not one exists
UpdateQueue_Rebuilt(q, name, description) ==
    /\ queues' = updateMetadata(queues, NewQueue(q, name, description, now))
    /\ last' = Result("UpdateQueue", 0, q, 0, 0, "ok")
    /\ UNCHANGED <<location, now, nextQueue, born, msgs, nextMsg, proc, hist>>

\* the descriptor is read, name and description are replaced, and it is
\* written back; a queue that does not exist is reported as success
UpdateQueue(q, name, description) ==
    /\ IF ~isDirExists(q)
       THEN UNCHANGED queues
       ELSE queues' = updateMetadata(queues,
                         [queues[q] EXCEPT !.name = name, !.description = description])
    /\ last' = Result("UpdateQueue", 0, q, 0, 0, "ok")
    /\ UNCHANGED <<location, now, nextQueue, born, msgs, nextMsg, proc, hist>>

DelQueue(q) ==
    /\ queues' = [p \in DOMAIN queues \ {q} |-> queues[p]]
    /\ msgs' = Remove(msgs, Files(q))
    /\ born' = [born EXCEPT ![q] = ZeroTime]
    /\ last' = Result("DelQueue", 0, q, 0, 0, "ok")
    /\ UNCHANGED <<location, now, nextQueue, nextMsg, proc, hist>>

\* the comparison GetQueues sorts with, on the createdAt strings
CreatedLess(a, b, desc) ==
    IF desc THEN StringLess(b.createdAt, a.createdAt) ELSE StringLess(a.createdAt, b.createdAt)

\* the orders sort.Slice may leave the descriptors in (the sort is not stable)
SortedByCreatedAt(desc) ==
    LET S == DOMAIN queues
        n == Cardinality(S)
    IN  {s \in [1..n -> S] :
            /\ \A i, j \in 1..n : i # j => s[i] # s[j]
            /\ \A i, j \in 1..n : i < j => ~CreatedLess(queues[s[j]], queues[s[i]], desc)}

\* totalPage(total, pageSize): the number of pages that hold total items
totalPage(total, pageSize) == (total + pageSize - 1) \div pageSize

\* allNamespaces[start:end] with both ends cut to the total
PageOf(s, page, pageSize) ==
    LET total == Len(s)
        start == Min((page - 1) * pageSize, total)
        end == Min(start + pageSize, total)
    IN  SubSeq(s, start + 1, end)

QueuesResult(page, pageSize, desc, ids) ==
    [op |-> "GetQueues", c |-> 0, queue |-> 0, msg |-> 0, arg |-> 0, res |-> "ok",
     desc |-> desc, page |-> page, pageSize |-> pageSize,
     items |-> [i \in 1..Len(ids) |-> queues[ids[i]]],
     total |-> Cardinality(DOMAIN queues),
     totalPage |-> totalPage(Cardinality(DOMAIN queues), pageSize)]

GetQueues(page, pageSize, desc) ==
    /\ \E s \in SortedByCreatedAt(desc) :
          last' = QueuesResult(page, pageSize, desc, PageOf(s, page, pageSize))
    /\ UNCHANGED <<location, now, queues, nextQueue, born, msgs, nextMsg, proc, hist>>

\* ---------------------------------------------------------------- enqueue
\* the lead-time check with its boundary on the wrong side
DeadlineTooEarly_Inclusive(deadline, t) == deadline <= Unix(t) + MinLead

\* req.Deadline < time.Now().Unix()+300
DeadlineTooEarly(deadline, t) == deadline < Unix(t) + MinLead

NewMsg(id, q, deadline, retry, timeout, t) ==
    [id |-> id, queueID |-> q, deadline |-> deadline, retry |-> retry,
     timeout |-> timeout, retried |-> 0, successAt |-> 0, failedAt |-> 0,
     reenterTime |-> ZeroTime, updateTime |-> t]

CreateMsg(q, deadline, retry, timeout) ==
    /\ IF DeadlineTooEarly(deadline, now)
       THEN /\ last' = Result("CreateMsg", 0, q, 0, deadline, "InvalidArgument")
            /\ UNCHANGED <<msgs, nextMsg, home>>
       ELSE IF ~isDirExists(q)
       THEN /\ last' = Result("CreateMsg", 0, q, 0, deadline, "NotFound")
            /\ UNCHANGED <<msgs, nextMsg, home>>
       ELSE /\ nextMsg <= MaxMsgs
            /\ msgs' = WriteFile(msgs, NewMsg(nextMsg, q, deadline, retry, timeout, now))
            /\ nextMsg' = nextMsg + 1
            /\ home' = [home EXCEPT ![nextMsg] = q]
            /\ last' = Result("CreateMsg", 0, q, nextMsg, deadline, "ok")
    /\ UNCHANGED <<location, now, queues, nextQueue, born, proc, delivered, held, holder, acked>>

\* ------------------------------------------------------------------- poll
\* the purge test without its deadline clause
IsFinished_NoDeadline(msg, t) ==
    \/ msg.successAt > 0
    \/ msg.failedAt > 0
    \/ (Before(msg.reenterTime, t) /\ msg.retried >= msg.retry)

\* the purge test that does not wait for the lease to end
IsFinished_IgnoresLease(msg, t) ==
    \/ msg.successAt > 0
    \/ msg.failedAt > 0
    \/ msg.deadline < Unix(t)
    \/ msg.retried >= msg.retry

\* "msg is finished": the record is removed by the scan
IsFinished(msg, t) ==
    \/ msg.successAt > 0
    \/ msg.failedAt > 0
    \/ msg.deadline < Unix(t)
    \/ (Before(msg.reenterTime, t) /\ msg.retried >= msg.retry)

\* "msg is not reenter queue": the record is skipped by the scan
IsInFlight(msg, t) == ~Equal(msg.reenterTime, ZeroTime) /\ After(msg.reenterTime, t)

Purged(q, t) == {m \in Files(q) : IsFinished(msgs[m], t)}

Eligible(q, t) == {m \in Files(q) \ Purged(q, t) : ~IsInFlight(msgs[m], t)}

\* the orders sort.Slice may leave the eligible IDs in: ascending updateTime,
\* ties in any order (the sort is not stable)
SortedByUpdateTime(S) ==
    {s \in [1..Cardinality(S) -> S] :
        /\ \A i, j \in 1..Cardinality(S) : i # j => s[i] # s[j]
        /\ \A i, j \in 1..Cardinality(S) :
              i < j => ~Before(msgs[s[j]].updateTime, msgs[s[i]].updateTime)}

\* the cut that keeps the end of the sorted list
Truncate_KeepsNewest(s, limit) ==
    IF Len(s) > limit THEN SubSeq(s, Len(s) - limit + 1, Len(s)) ELSE s

\* msgs = msgs[:req.Limit] when longer than the limit
Truncate(s, limit) == IF Len(s) > limit THEN SubSeq(s, 1, limit) ELSE s

\* the lease grant applied to the poller's copy of a record
Leased(msg, t) ==
    [msg EXCEPT !.reenterTime = AddSeconds(t, msg.timeout), !.retried = msg.retried + 1]

\* the end of the lease a response grants on message m
LeaseEnd(resp, m) == (CHOOSE r \in Range(resp) : r.id = m).reenterTime

\* the IDs of a sequence of records
Ids(recs) == {recs[i].id : i \in 1..Len(recs)}

\* GetMsg up to the end of the directory walk: now is read, every record of
\* the queue is classified, finished records are removed, the eligible ones
\* are sorted and cut to the limit.
GetMsgScan(c, q, limit) ==
    /\ proc[c].pc = "idle"
    /\ IF ~isDirExists(q)
       THEN /\ last' = Result("GetMsg", c, q, 0, 0, "IOFailure")
            /\ UNCHANGED <<msgs, proc>>
       ELSE \E s \in SortedByUpdateTime(Eligible(q, now)) :
              LET ids == Truncate(s, limit)
                  sel == [i \in 1..Len(ids) |-> msgs[ids[i]]]
              IN  /\ \A i \in 1..Len(ids) : sel[i].retried < MaxRetried
                  /\ msgs' = Remove(msgs, Purged(q, now))
                  /\ IF Len(sel) = 0
                     THEN /\ proc' = proc
                          /\ last' = Result("GetMsg", c, q, 0, 0, "ok")
                     ELSE /\ proc' = [proc EXCEPT ![c] =
                                        [pc |-> "lease", queue |-> q, now |-> now,
                                         sel |-> sel, resp |-> <<>>, msg |-> 0]]
                          /\ last' = Internal
    /\ UNCHANGED <<location, now, queues, nextQueue, born, nextMsg, hist>>

\* One turn of the lease loop: the next selected record gets its lease and is
\* written back; after the last one the response is returned.
GetMsgLease(c) ==
    /\ proc[c].pc = "lease"
    /\ LET p == proc[c]
           rec == Leased(Head(p.sel), p.now)
           resp == Append(p.resp, rec)
       IN  IF ~isDirExists(p.queue)
           THEN \* os.WriteFile into a removed directory fails
                /\ proc' = [proc EXCEPT ![c] = Idle]
                /\ last' = Result("GetMsg", c, p.queue, 0, 0, "IOFailure")
                /\ UNCHANGED <<msgs, delivered, held, holder>>
           ELSE /\ msgs' = WriteFile(msgs, rec)
                /\ IF Len(p.sel) = 1
                   THEN /\ proc' = [proc EXCEPT ![c] = Idle]
                        /\ delivered' = [m \in MsgIds |->
                                           IF m \in Ids(resp)
                                           THEN Min(delivered[m] + 1, MaxRetried + 1)
                                           ELSE delivered[m]]
                        /\ held' = [m \in MsgIds |->
                                      IF m \in Ids(resp)
                                      THEN [held[m] EXCEPT ![c] = LeaseEnd(resp, m)]
                                      ELSE held[m]]
                        /\ holder' = [m \in MsgIds |-> IF m \in Ids(resp) THEN c ELSE holder[m]]
                        /\ last' = Result("GetMsg", c, p.queue, 0, 0, "ok")
                   ELSE /\ proc' = [proc EXCEPT ![c] =
                                      [p EXCEPT !.sel = Tail(p.sel), !.resp = resp]]
                        /\ last' = Internal
                        /\ UNCHANGED <<delivered, held, holder>>
    /\ UNCHANGED <<location, now, queues, nextQueue, born, nextMsg, acked, home>>

\* GetMsg when the directory walk stops at a record that cannot be read or
\* parsed: the records the walk visited before it (the walk goes by file name,
\* any order of the IDs) have been classified, the finished ones among them
\* removed, and the error is returned.
GetMsgScanFail(c, q) ==
    /\ proc[c].pc = "idle"
    /\ isDirExists(q)
    /\ \E bad \in Files(q) :
          \E visited \in SUBSET (Files(q) \ {bad}) :
             msgs' = Remove(msgs, visited \cap Purged(q, now))
    /\ last' = Result("GetMsg", c, q, 0, 0, "IOFailure")
    /\ UNCHANGED <<location, now, queues, nextQueue, born, nextMsg, proc, hist>>

\* One turn of the lease loop in which os.WriteFile fails: the error is
\* returned, the records written in earlier turns stay as written.
GetMsgLeaseFail(c) ==
    /\ proc[c].pc = "lease"
    /\ isDirExists(proc[c].queue)
    /\ proc' = [proc EXCEPT ![c] = Idle]
    /\ last' = Result("GetMsg", c, proc[c].queue, 0, 0, "IOFailure")
    /\ UNCHANGED <<location, now, queues, nextQueue, born, msgs, nextMsg, hist>>

\* --------------------------------------------------------------------- ack
\* the acknowledgment without its never-leased check
NeverLeased_Unchecked(msg) == FALSE

\* msg.ReenterTime.Equal(time.Time{})
NeverLeased(msg) == Equal(msg.reenterTime, ZeroTime)

\* msg.ReenterTime.Before(time.Now())
LeaseExpired(msg, t) == Before(msg.reenterTime, t)

\* AckMsg up to its checks: file exists, record read, lease checked
AckMsgCheck(c, q, m) ==
    /\ proc[c].pc = "idle"
    /\ IF ~isFileExists(q, m)
       THEN /\ last' = Result("AckMsg", c, q, m, 0, "NotFound")
            /\ UNCHANGED proc
       ELSE IF NeverLeased(msgs[m])
       THEN /\ last' = Result("AckMsg", c, q, m, 0, "NotFound")
            /\ UNCHANGED proc
       ELSE IF LeaseExpired(msgs[m], now)
       THEN /\ last' = Result("AckMsg", c, q, m, 0, "LeaseExpired")
            /\ UNCHANGED proc
       ELSE /\ proc' = [proc EXCEPT ![c] = [Idle EXCEPT !.pc = "ack", !.queue = q, !.msg = m]]
            /\ last' = Internal
    /\ UNCHANGED <<location, now, queues, nextQueue, born, msgs, nextMsg, hist>>

\* AckMsg's os.Remove of the record file
AckMsgRemove(c) ==
    /\ proc[c].pc = "ack"
    /\ LET q == proc[c].queue
           m == proc[c].msg
       IN  IF isFileExists(q, m)
           THEN /\ msgs' = Remove(msgs, {m})
                /\ acked' = acked \cup {m}
                /\ last' = Result("AckMsg", c, q, m, 0, "ok")
           ELSE /\ last' = Result("AckMsg", c, q, m, 0, "IOFailure")
                /\ UNCHANGED <<msgs, acked>>
    /\ proc' = [proc EXCEPT ![c] = Idle]
    /\ UNCHANGED <<location, now, queues, nextQueue, born, nextMsg, delivered, held, holder, home>>

\* the empty storage directory of a process just started
Start ==
    /\ now = 0
    /\ queues = <<>>
    /\ nextQueue = 1
    /\ born = [q \in ListedIds |-> ZeroTime]
    /\ msgs = <<>>
    /\ nextMsg = 1
    /\ proc = [c \in Consumers |-> Idle]
    /\ last = Internal
    /\ delivered = [m \in MsgIds |-> 0]
    /\ held = [m \in MsgIds |-> [c \in Consumers |-> NoLease]]
    /\ holder = [m \in MsgIds |-> 0]
    /\ acked = {}
    /\ home = [m \in MsgIds |-> 0]

\* No message operation reads the zone: the message specifications fix it.
Init == location = UTC /\ Start

InitQueues == location \in Locations /\ Start

\* Two consumers racing on a queue of RaceMsgs messages.
Next ==
    \/ Tick
    \/ Wait
    \/ \E name \in QueueNames :
          (isNameExists(name) \/ nextQueue <= MaxQueues) /\ CreateQueue(name, "")
    \/ \E q \in QueueIds : DelQueue(q)
    \/ \E q \in QueueIds, lead \in Leads, retry \in Retries, timeout \in Timeouts :
          nextMsg <= RaceMsgs /\ CreateMsg(q, Unix(now) + lead, retry, timeout)
    \/ \E c \in Consumers, q \in QueueIds, limit \in Limits : GetMsgScan(c, q, limit)
    \/ \E c \in Consumers : GetMsgLease(c)
    \/ \E c \in Consumers, q \in QueueIds, m \in MsgIds : AckMsgCheck(c, q, m)
    \/ \E c \in Consumers : AckMsgRemove(c)

Spec == Init /\ [][Next]_vars

\* One consumer on a queue of MaxMsgs messages.
NextSolo ==
    \/ Tick
    \/ Wait
    \/ \E name \in QueueNames :
          (isNameExists(name) \/ nextQueue <= MaxQueues) /\ CreateQueue(name, "")
    \/ \E q \in QueueIds : DelQueue(q)
    \/ \E q \in QueueIds, lead \in Leads, retry \in Retries, timeout \in Timeouts :
          CreateMsg(q, Unix(now) + lead, retry, timeout)
    \/ \E q \in QueueIds, limit \in Limits : GetMsgScan(1, q, limit)
    \/ GetMsgLease(1)
    \/ \E q \in QueueIds, m \in MsgIds : AckMsgCheck(1, q, m)
    \/ AckMsgRemove(1)

SpecSolo == Init /\ [][NextSolo]_vars

\* the deadline of every message of the fair specification
FairDeadline == MinLead

\* Two consumers and a producer that enqueues during the first second with the
\* minimum lead, so that the clock of the model passes every deadline.
NextFair ==
    \/ Tick
    \/ Wait
    \/ \E name \in QueueNames :
          (isNameExists(name) \/ nextQueue <= MaxQueues) /\ CreateQueue(name, "")
    \/ \E q \in QueueIds : DelQueue(q)
    \/ \E q \in QueueIds, retry \in Retries, timeout \in Timeouts :
          nextMsg <= RaceMsgs /\ Unix(now) = 0 /\ CreateMsg(q, FairDeadline, retry, timeout)
    \/ \E c \in Consumers, q \in QueueIds, limit \in Limits : GetMsgScan(c, q, limit)
    \/ \E c \in Consumers : GetMsgLease(c)
    \/ \E c \in Consumers, q \in QueueIds, m \in MsgIds : AckMsgCheck(c, q, m)
    \/ \E c \in Consumers : AckMsgRemove(c)

\* Time keeps advancing, every call in progress returns, and every queue keeps
\* being polled.
Fairness ==
    /\ WF_vars(Tick)
    /\ SF_vars(Wait)
    /\ \A c \in Consumers : WF_vars(GetMsgLease(c)) /\ WF_vars(AckMsgRemove(c))
    /\ \A q \in QueueIds :
          SF_vars(\E c \in Consumers, limit \in Limits : GetMsgScan(c, q, limit))

SpecFair == Init /\ [][NextFair]_vars /\ Fairness

\* One consumer on a queue of MaxMsgs messages whose reads and writes can fail.
NextFaults ==
    \/ Tick
    \/ \E name \in QueueNames :
          (isNameExists(name) \/ nextQueue <= MaxQueues) /\ CreateQueue(name, "")
    \/ \E q \in QueueIds, retry \in Retries, timeout \in Timeouts :
          CreateMsg(q, Unix(now) + MinLead, retry, timeout)
    \/ \E q \in QueueIds, limit \in Limits : GetMsgScan(1, q, limit)
    \/ GetMsgLease(1)
    \/ \E q \in QueueIds : GetMsgScanFail(1, q)
    \/ GetMsgLeaseFail(1)
    \/ \E q \in QueueIds, m \in MsgIds : AckMsgCheck(1, q, m)
    \/ AckMsgRemove(1)

SpecFaults == Init /\ [][NextFaults]_vars

\* One caller managing up to MaxListed queues, one of them holding a message.
NextQueues ==
    \/ Tick
    \/ \E name \in ListedNames, description \in Descriptions : CreateQueue(name, description)
    \/ \E q \in ListedIds, name \in ListedNames, description \in Descriptions :
          UpdateQueue(q, name, description)
    \/ \E q \in ListedIds : DelQueue(q)
    \/ \E page \in Pages, pageSize \in PageSizes, desc \in BOOLEAN :
          GetQueues(page, pageSize, desc)
    \/ \E q \in ListedIds :
          nextMsg <= RaceMsgs /\ CreateMsg(q, Unix(now) + MinLead, 1, 1)

SpecQueues == InitQueues /\ [][NextQueues]_vars

\* ------------------------------------------------------------ vocabulary
\* the messages a GetMsgLease(c) step hands to its caller
Returns(c) ==
    IF proc[c].pc = "lease" /\ Len(proc[c].sel) = 1 /\ isDirExists(proc[c].queue)
    THEN Ids(proc[c].resp) \cup {Head(proc[c].sel).id}
    ELSE {}

\* consumer c starts a poll of queue q in this step: the scan either goes on
\* to the lease loop or returns at once
Polls(c, q) ==
    /\ proc[c].pc = "idle"
    /\ \/ proc'[c].pc = "lease" /\ proc'[c].queue = q
       \/ last'.op = "GetMsg" /\ last'.c = c /\ last'.queue = q

\* consumer c starts a poll of queue q whose limit covers every record
PollsAll(c, q) == \E limit \in Limits : limit >= Cardinality(Files(q)) /\ GetMsgScan(c, q, limit)

\* the messages the poll started in this step has selected
Selected(c) == IF proc'[c].pc = "lease" THEN Ids(proc'[c].sel) ELSE {}

\* every lease handed out on m has ended before t
LeasesEnded(m, t) == \A c \in Consumers : held[m][c] < t

\* ------------------------------------------------------------------ claims

\* C1: once AckMsg(M) has returned success, every AckMsg(M) issued later
\* returns NotFound and no poll issued later selects (and so returns) M.
C1_AckedStaysGone ==
    [][\A m \in acked, c \in Consumers, q \in QueueIds :
          /\ AckMsgCheck(c, q, m) => (last'.op = "AckMsg" /\ last'.res = "NotFound")
          /\ Polls(c, q) => m \notin Selected(c)]_vars

\* C2: a message enqueued with retry = R is never returned by GetMsg more
\* than R times.
C2_AtMostRetryDeliveries ==
    \A m \in DOMAIN msgs : delivered[m] <= msgs[m].retry

\* C3: a message with retry = R whose deadline has not passed, that has been
\* handed out R times without an acknowledgment and whose leases have all
\* ended, is deleted and not selected by the next poll of its queue.
C3_PurgedAfterRetries ==
    [][\A c \in Consumers, q \in QueueIds, m \in MsgIds :
          (/\ Polls(c, q)
           /\ m \in Files(q)
           /\ m \notin acked
           /\ msgs[m].deadline >= Unix(now)
           /\ delivered[m] >= msgs[m].retry
           /\ LeasesEnded(m, now))
          => (m \notin DOMAIN msgs' /\ m \notin Selected(c))]_vars

\* C4: a message leased by a poll issued at T with timeout tau is not returned
\* by a poll issued at t with T <= t < T + tau; unacknowledged, with retry
\* budget left and its deadline not passed, it is selected again by a poll
\* issued at t >= T + tau whose limit covers it.
C4_InvisibleUntilLeaseEnds ==
    [][\A c \in Consumers, m \in MsgIds :
          /\ (GetMsgLease(c) /\ m \in Returns(c))
             => LET t == proc[c].now
                    tau == held'[m][c] - t
                IN  \A d \in Consumers :
                       held[m][d] # NoLease
                       => ~(held[m][d] - tau <= t /\ t < held[m][d])
          /\ \A q \in QueueIds :
                (/\ PollsAll(c, q)
                 /\ m \in Files(q)
                 /\ \E d \in Consumers : held[m][d] # NoLease
                 /\ LeasesEnded(m, now + 1)
                 /\ msgs[m].retried < msgs[m].retry
                 /\ msgs[m].deadline >= Unix(now))
                => m \in Selected(c)]_vars

\* C5: two GetMsg calls never both return the same message with overlapping
\* lease windows.
C5_NoOverlappingLeases ==
    [][\A c \in Consumers, m \in MsgIds :
          (GetMsgLease(c) /\ m \in Returns(c))
          => LET from == proc[c].now
                 until == held'[m][c]
             IN  \A d \in Consumers \ {c} :
                    held[m][d] # NoLease
                    => ~(held[m][d] - (until - from) < until /\ from < held[m][d])]_vars

\* C6: an AckMsg(M) issued by a consumer whose lease on M has expired, after
\* M has been handed to a different consumer, is rejected and leaves the
\* record in place.
C6_LateAckRejected ==
    [][\A c \in Consumers, q \in QueueIds, m \in MsgIds :
          (/\ AckMsgCheck(c, q, m)
           /\ isFileExists(q, m)
           /\ held[m][c] # NoLease
           /\ held[m][c] < now
           /\ holder[m] # c)
          => (/\ proc'[c].pc = "idle"
              /\ last'.res \in {"NotFound", "LeaseExpired"}
              /\ msgs' = msgs)]_vars

\* C7: AckMsg returns NotFound when the record does not exist or was never
\* leased, and the lease-expired error when reenterTime is earlier than now;
\* a failing AckMsg leaves every record as it was, a successful one removes
\* exactly the acknowledged record.
C7_AckFailuresKeepRecord ==
    [][/\ \A c \in Consumers, q \in QueueIds, m \in MsgIds :
             AckMsgCheck(c, q, m)
             => /\ msgs' = msgs
                /\ (q \notin DOMAIN queues \/ m \notin DOMAIN msgs \/ msgs[m].queueID # q)
                   => (last'.op = "AckMsg" /\ last'.res = "NotFound")
                /\ (q \in DOMAIN queues /\ m \in DOMAIN msgs /\ msgs[m].queueID = q)
                   => /\ msgs[m].reenterTime = ZeroTime
                         => (last'.op = "AckMsg" /\ last'.res = "NotFound")
                      /\ (msgs[m].reenterTime # ZeroTime /\ msgs[m].reenterTime < now)
                         => (last'.op = "AckMsg" /\ last'.res = "LeaseExpired")
       /\ last'.op = "AckMsg"
          => IF last'.res = "ok"
             THEN /\ last'.msg \in DOMAIN msgs
                  /\ msgs' = [m \in DOMAIN msgs \ {last'.msg} |-> msgs[m]]
             ELSE msgs' = msgs]_vars

\* a late AckMsg has been turned down and the record is still stored
C7_Witness ==
    /\ last.op = "AckMsg"
    /\ last.res = "LeaseExpired"
    /\ last.msg \in DOMAIN msgs
    /\ msgs[last.msg].reenterTime < now

\* C8: whatever its retry, a message that was never leased, carries no
\* terminal marker and has not passed its deadline is kept by a poll of its
\* queue, and selected when the limit covers it.
C8_NeverLeasedIsEligible ==
    [][\A c \in Consumers, q \in QueueIds, m \in MsgIds :
          /\ (/\ Polls(c, q)
              /\ m \in Files(q)
              /\ msgs[m].reenterTime = ZeroTime
              /\ msgs[m].successAt = 0 /\ msgs[m].failedAt = 0
              /\ msgs[m].deadline >= Unix(now))
             => m \in DOMAIN msgs'
          /\ (/\ PollsAll(c, q)
              /\ m \in Files(q)
              /\ msgs[m].reenterTime = ZeroTime
              /\ msgs[m].successAt = 0 /\ msgs[m].failedAt = 0
              /\ msgs[m].deadline >= Unix(now))
             => m \in Selected(c)]_vars

\* C9: a poll issued at time now (in Unix seconds, the unit of the deadline)
\* deletes every message of its queue whose deadline is earlier than now,
\* whatever its lease state and retry count, and returns none of them.
C9_DeadlineIsAbsolute ==
    [][\A c \in Consumers :
          /\ \A q \in QueueIds :
                Polls(c, q)
                => \A m \in DOMAIN msgs :
                      (msgs[m].queueID = q /\ msgs[m].deadline < Unix(now))
                      => (m \notin DOMAIN msgs' /\ m \notin Selected(c))
          /\ GetMsgLease(c)
             => \A i \in 1..Len(proc[c].sel) :
                   proc[c].sel[i].deadline >= Unix(proc[c].now)]_vars

\* a poll has removed an unacknowledged message whose lease was still running
C9_Witness ==
    /\ last.op = "GetMsg"
    /\ last.res = "ok"
    /\ \E m \in MsgIds :
          /\ m < nextMsg
          /\ m \notin DOMAIN msgs
          /\ m \notin acked
          /\ \E c \in Consumers : held[m][c] > now
          /\ last.queue \in DOMAIN queues

\* C10: CreateMsg fails with InvalidArgument and stores nothing when
\* deadline < now + 300 (Unix seconds); otherwise it fails with NotFound and
\* stores nothing when the queue does not exist; otherwise it succeeds and
\* stores exactly one new record with retried = 0, reenterTime unset and
\* updateTime = now, every other record unchanged.
C10_CreateMsgOutcome ==
    [][\A q \in QueueIds, lead \in Leads, retry \in Retries, timeout \in Timeouts :
          CreateMsg(q, Unix(now) + lead, retry, timeout)
          => IF lead < MinLead
             THEN last'.res = "InvalidArgument" /\ msgs' = msgs
             ELSE IF q \notin DOMAIN queues
             THEN last'.res = "NotFound" /\ msgs' = msgs
             ELSE /\ last'.res = "ok"
                  /\ last'.msg \notin DOMAIN msgs
                  /\ DOMAIN msgs' = DOMAIN msgs \cup {last'.msg}
                  /\ \A m \in DOMAIN msgs : msgs'[m] = msgs[m]
                  /\ msgs'[last'.msg].id = last'.msg
                  /\ msgs'[last'.msg].queueID = q
                  /\ msgs'[last'.msg].deadline = Unix(now) + lead
                  /\ msgs'[last'.msg].retry = retry
                  /\ msgs'[last'.msg].timeout = timeout
                  /\ msgs'[last'.msg].retried = 0
                  /\ msgs'[last'.msg].reenterTime = ZeroTime
                  /\ msgs'[last'.msg].updateTime = now]_vars

\* a second record has been stored next to an older one
C10_Witness ==
    /\ last.op = "CreateMsg"
    /\ last.res = "ok"
    /\ last.arg = Unix(now) + MinLead
    /\ Cardinality(DOMAIN msgs) = 2

\* C11: no two existing queue descriptors carry the same name.
C11_NamesAreUnique ==
    \A p, q \in DOMAIN queues : p # q => queues[p].name # queues[q].name

\* the queue IDs generated so far
UsedIds == 1..(nextQueue - 1)

\* C12: CreateQueue with the name of an existing queue fails with
\* AlreadyExists and creates no queue; once DelQueue has removed the queue
\* holding a name, that name is free, and CreateQueue with a free name
\* succeeds and returns an ID no queue has had before.
C12_RecreateAfterDelete ==
    [][/\ \A name \in ListedNames, description \in Descriptions :
             CreateQueue(name, description)
             => IF \E q \in DOMAIN queues : queues[q].name = name
                THEN last'.res = "AlreadyExists" /\ queues' = queues
                ELSE /\ last'.res = "ok"
                     /\ last'.queue \notin UsedIds
                     /\ DOMAIN queues' = DOMAIN queues \cup {last'.queue}
                     /\ queues'[last'.queue].name = name
       /\ \A q \in ListedIds :
             (DelQueue(q) /\ q \in DOMAIN queues)
             => /\ q \notin DOMAIN queues'
                /\ \A p \in DOMAIN queues' : queues'[p].name # queues[q].name]_vars

\* the orders of the existing queues by the instant of their creation,
\* ascending or descending, queues created at the same instant in any order
ByCreation(desc) ==
    LET S == DOMAIN queues
        n == Cardinality(S)
    IN  {s \in [1..n -> S] :
            /\ \A i, j \in 1..n : i # j => s[i] # s[j]
            /\ \A i, j \in 1..n :
                  i < j => IF desc THEN born[s[i]] >= born[s[j]] ELSE born[s[i]] <= born[s[j]]}

\* C13: over N descriptors GetQueues(page, pageSize, desc) returns total = N,
\* totalPage = ceil(N / pageSize) and as items the elements at positions
\* (page-1)*pageSize+1 .. min(page*pageSize, N) of the descriptors sorted by
\* creation time; a page past the end is empty.
C13_PageOfSortedQueues ==
    [][\A page \in Pages, pageSize \in PageSizes, desc \in BOOLEAN :
          GetQueues(page, pageSize, desc)
          => LET N == Cardinality(DOMAIN queues)
                 first == (page - 1) * pageSize + 1
                 end == Min(page * pageSize, N)
                 count == IF end < first THEN 0 ELSE end - first + 1
             IN  /\ last'.total = N
                 /\ last'.totalPage * pageSize >= N
                 /\ (last'.totalPage - 1) * pageSize < N
                 /\ last'.totalPage >= 0
                 /\ \E s \in ByCreation(desc) :
                       last'.items = [i \in 1..count |-> queues[s[first + i - 1]]]]_vars

\* C14: UpdateQueue succeeds and changes nothing but the name and the
\* description of the addressed queue: its id, runId, actorId and createdAt,
\* every message record and every other queue stay as they were, and a queue
\* that does not exist is not created.
C14_UpdateChangesNameAndDescriptionOnly ==
    [][\A q \in ListedIds, name \in ListedNames, description \in Descriptions :
          UpdateQueue(q, name, description)
          => /\ last'.op = "UpdateQueue" /\ last'.res = "ok"
             /\ msgs' = msgs
             /\ DOMAIN queues' = DOMAIN queues
             /\ \A p \in DOMAIN queues \ {q} : queues'[p] = queues[p]
             /\ q \in DOMAIN queues
                => /\ queues'[q].id = queues[q].id
                   /\ queues'[q].runId = queues[q].runId
                   /\ queues'[q].actorId = queues[q].actorId
                   /\ queues'[q].createdAt = queues[q].createdAt
                   /\ queues'[q].name = name
                   /\ queues'[q].description = description]_vars

\* a queue that holds a message and was created earlier has just been renamed
\* next to another queue
C14_Witness ==
    /\ last.op = "UpdateQueue"
    /\ last.queue \in DOMAIN queues
    /\ queues[last.queue].description = "bills"
    /\ born[last.queue] < now
    /\ Files(last.queue) # {}
    /\ Cardinality(DOMAIN queues) = 2

\* C15: the record a poll issued at time now persists for a selected message
\* has reenterTime = now + timeout seconds, retried = previous retried + 1
\* and updateTime = now.
C15_LeaseGrantWrite ==
    [][\A c \in Consumers :
          (GetMsgLease(c) /\ isDirExists(proc[c].queue))
          => LET m == Head(proc[c].sel).id
                 t == proc[c].now
             IN  /\ m \in DOMAIN msgs'
                 /\ msgs'[m].reenterTime = AddSeconds(t, Head(proc[c].sel).timeout)
                 /\ msgs'[m].retried = Head(proc[c].sel).retried + 1
                 /\ msgs'[m].updateTime = t]_vars

\* the records a scan step by c has selected, in order
Selection(c) == IF proc'[c].pc = "lease" THEN proc'[c].sel ELSE <<>>

\* C16: GetMsg (by the one poller, consumer 1) with limit >= 0 selects exactly min(limit, E) of the E eligible
\* messages, those with the smallest updateTime, in ascending updateTime
\* order, and leases only these: the scan rewrites no record, and each lease
\* write changes the selected record only, so eligible messages beyond the
\* limit and in-flight messages keep their records.
C16_LimitAndOrder ==
    [][LET c == 1 IN
          /\ \A q \in QueueIds, limit \in Limits :
                (Polls(c, q) /\ isDirExists(q) /\ GetMsgScan(c, q, limit))
                => LET E == Eligible(q, now)
                       sel == Selection(c)
                   IN  /\ Len(sel) = Min(limit, Cardinality(E))
                       /\ \A i \in 1..Len(sel) : sel[i].id \in E /\ sel[i] = msgs[sel[i].id]
                       /\ \A i, j \in 1..Len(sel) :
                             i < j => /\ sel[i].id # sel[j].id
                                      /\ sel[i].updateTime <= sel[j].updateTime
                       /\ \A m \in E \ Ids(sel), i \in 1..Len(sel) :
                             sel[i].updateTime <= msgs[m].updateTime
                       /\ \A m \in Files(q) :
                             m \in DOMAIN msgs' => msgs'[m] = msgs[m]
          /\ GetMsgLease(c)
             => \A m \in DOMAIN msgs \ {Head(proc[c].sel).id} :
                   m \in DOMAIN msgs' /\ msgs'[m] = msgs[m]]_vars

\* a poll has leased the older of two eligible messages and left the newer
\* one as it was
C16_Witness ==
    /\ last.op = "GetMsg"
    /\ last.res = "ok"
    /\ \E m, n \in Files(last.queue) :
          /\ msgs[m].retried = 1 /\ msgs[m].reenterTime > now
          /\ msgs[n].retried = 0 /\ msgs[n].reenterTime = ZeroTime
          /\ msgs[m].updateTime < msgs[n].updateTime

\* C17: when GetMsg returns an error on an existing queue, the call has
\* deleted and modified no message record: the step that returns the error
\* changes no record, and the call has written no lease before it.
C17_FailedPollChangesNothing ==
    [][\A c \in Consumers :
          (/\ last'.op = "GetMsg"
           /\ last'.c = c
           /\ last'.res = "IOFailure"
           /\ isDirExists(last'.queue))
          => /\ msgs' = msgs
             /\ proc[c].resp = <<>>]_vars

\* C18: under fairness every message ever enqueued is eventually absent from
\* the store for good.
C18_EventuallyRemoved ==
    \A m \in MsgIds : <>[](m \notin DOMAIN msgs)

\* a message that was handed out and never acknowledged is gone from a queue
\* that still exists, after its deadline
C18_Witness ==
    /\ Unix(now) > MinLead
    /\ queues # <<>>
    /\ \E m \in MsgIds :
          /\ m < nextMsg
          /\ delivered[m] > 0
          /\ m \notin acked
          /\ m \notin DOMAIN msgs

\* C19: whenever no poll is in progress, the retried field of each stored
\* message equals the number of times GetMsg has returned that message, and
\* no write of a record decreases its retried.
C19_RetriedCountsDeliveries ==
    [][/\ (\A c \in Consumers : proc'[c].pc # "lease")
          => \A m \in DOMAIN msgs' : msgs'[m].retried = delivered'[m]
       /\ \A m \in DOMAIN msgs \cap DOMAIN msgs' :
             msgs'[m].retried >= msgs[m].retried]_vars

\* an AckMsg(m) on m's queue q, not deleted, by consumer c, the consumer m was
\* handed to last, running before the end of that lease; no poll has written
\* another lease on m and nobody has acknowledged it
AckInTime(c, q, m) ==
    /\ q = home[m]
    /\ isDirExists(q)
    /\ holder[m] = c
    /\ now < held[m][c]
    /\ m \in DOMAIN msgs => msgs[m].reenterTime = held[m][c]
    /\ m \notin acked

\* the AckMsg(m) of consumer c passes its checks, or completes with success
\* and m removed
AckGoesThrough(c, q, m) ==
    /\ AckMsgCheck(c, q, m) => proc'[c].pc = "ack"
    /\ (AckMsgRemove(c) /\ proc[c].queue = q /\ proc[c].msg = m)
       => (last'.res = "ok" /\ m \notin DOMAIN msgs')

====
